---- MODULE Spec2Model ----
(***************************************************************************)
(* Frame acquisition pipeline of the GY-MCU90640 sketches:                 *)
(*   - "wifi"       : sketch_feb27a.ino (ESP32) and the second program of  *)
(*                    sketch_feb23a.ino (ESP8266): loop() polls the sensor *)
(*                    when millis() - lastFetch > 1000 and broadcasts the  *)
(*                    decoded grid over a WebSocket;                       *)
(*   - "standalone" : the first program of sketch_feb23a.ino: loop()       *)
(*                    polls, prints and then delay(5000).                  *)
(*   - "early"      : the first sketch of the README (SoftwareSerial),     *)
(*                    modelled apart from the two others.                  *)
(*                                                                         *)
(* Time is millis(), an unsigned counter that wraps.  Statements that do   *)
(* not wait take no time; time passes inside the header wait loop, inside  *)
(* Serial.readBytes, inside delay() and between two checks of loop().      *)
(* A wait loop re-reads millis() at least once per millisecond, so a wait  *)
(* of d ms ends at the first millisecond at which its guard is false.      *)
(*                                                                         *)
(* A temperature (float raw / 100.0) is represented by its number of       *)
(* hundredths of a degree; every int16 gives a distinct float and -40.0    *)
(* and 300.0 are exact, so the comparisons are the integer comparisons.    *)
(***************************************************************************)
EXTENDS Integers, Sequences, FiniteSets, TLC

VARIABLES
    variant,      \* "wifi", "standalone" or "early": which sketch runs
    now,          \* millis()
    pc,           \* position of the program: "loop", "drain", "sync", "read",
                  \* "delay"; "load" and "decode" when the decoder runs alone
    lastFetch,    \* unsigned long lastFetch
    startWait,    \* unsigned long startWait
    headerFound,  \* bool headerFound
    received,     \* int received (bytes stored by readBytes so far)
    readStart,    \* Stream::_startMillis of the running timedRead
    rawData,      \* uint8_t rawData[1540], indexed from 1
    frame,        \* float frame[768], indexed from 1, in hundredths of a degree
    ambient,      \* float ta of decodeAndShow (hundredths), standalone only
    clients,      \* number of connected WebSocket subscribers
    rx,           \* serial receive buffer (FIFO)
    wire,         \* chunks of bytes the sensor has still to put on the line
    polls,        \* number of poll cycles started
    outcome,      \* outcome of the last completed cycle, "none" before the first
    tx,           \* writes to the sensor in the current cycle
    arrived,      \* bytes that reached the receive buffer since the query of this cycle
    staleBytes,   \* bytes of answers to earlier queries still on the line when
                  \* the query of this cycle was written
    taken,        \* bytes read from the serial port since the query of this cycle
    scene,        \* raw values the sensor encoded in the frame it sent last
    frame0,       \* frame[] as it was when the current cycle started
    decodes,      \* calls of decodeFrame()/decodeAndShow() in the current cycle
    sent,         \* payloads given to broadcastBIN in the current cycle
    reported,     \* count printed by the "Trame incomplete" message, -1 if none
    waited,       \* millis() - startWait when the header search ended
    loopElapsed,  \* millis() - lastFetch seen by the last run of loop()
    loopPolled,   \* whether the last run of loop() triggered a poll
    sincePoll,    \* milliseconds that really passed since the last poll was
                  \* triggered (since lastFetch was last assigned), not wrapped
    pollGap,      \* sincePoll when the current cycle was triggered, -1 if none
    sinceStart,   \* milliseconds that really passed in the header search since
                  \* startWait = millis(), not wrapped
    sentAt,       \* millis() at the last call of broadcastBIN, -1 if none
    sentGap,      \* millis() time between the broadcast of this cycle and the
                  \* one before it, -1 if there are not two
    shown         \* what map() gave for each cell printed by decodeAndShow() in
                  \* the current cycle: <<val>>, or <<>> where it gave no value

vars == <<variant, now, pc, lastFetch, startWait, headerFound, received,
          readStart, rawData, frame, ambient, clients, rx, wire, polls, outcome,
          tx, arrived, staleBytes, taken, scene, frame0, decodes, sent,
          reported, waited, loopElapsed, loopPolled, sincePoll, pollGap,
          sinceStart, sentAt, sentGap,
                   shown>>

----------------------------------------------------------------------------
(* Bounds of the model *)

\* number of pixels of a frame (768 in the sketches)
NumPixels == 2

\* number of poll cycles explored
MaxPolls == 2

\* number of WebSocket subscribers
MaxClients == 1

\* width in bits of the millis() counter (32 on the targets)
ClockBits == 14

----------------------------------------------------------------------------
(* Constants of the program *)

PollInterval == 1000
WifiDeadline == 500
StandaloneDeadline == 1000
DelayMs == 5000
StreamTimeout == 1000
LowLimit == -40
HighLimit == 300
FloatSize == 4

ClockMod == 2 ^ ClockBits

\* header 5A 5A 02 06
Hdr == <<90, 90, 2, 6>>

\* the auto-send command A5 35 02 DC of the first sketches
askDataAuto == <<165, 53, 2, 220>>

\* byte askData[] = {0xA5, 0x35, 0x01, 0xDB}
askData == <<165, 53, 1, 219>>

PixelBytes == 2 * NumPixels
\* 1536 pixel bytes + 2 ambient + 2 checksum = 1540
FrameBytes == PixelBytes + 4
\* sizeof(frame)
SizeofFrame == FloatSize * NumPixels

Min(S) == CHOOSE x \in S : \A y \in S : x <= y

\* number of bytes in a sequence of chunks
RECURSIVE WireLen(_)
WireLen(w) == IF w = <<>> THEN 0 ELSE Len(Head(w)) + WireLen(Tail(w))

----------------------------------------------------------------------------
(* millis() arithmetic *)

\* the subtraction made in a signed type wider than the counter: no wrap
ElapsedSigned(a, b) == a - b

\* unsigned subtraction a - b of two millis() readings
Elapsed(a, b) == (a - b) % ClockMod

\* millis() d milliseconds after t
After(t, d) == (t + d) % ClockMod

\* a true duration of t ms as the model records it: durations of a whole
\* period of the clock or more are recorded as one period
Capped(t) == IF t > ClockMod THEN ClockMod ELSE t

\* the timer test written  millis() - lastFetch >= 1000
PollDueAtInterval(t, last) == Elapsed(t, last) >= PollInterval

\* loop(): if (millis() - lastFetch > 1000)
PollDue(t, last) == Elapsed(t, last) > PollInterval

\* the timeout of the header search of the running sketch
Deadline == IF variant = "wifi" THEN WifiDeadline ELSE StandaloneDeadline

\* the header loop with the test  millis() - startWait <= deadline
HeaderWaitOpenLate(t, start) == Elapsed(t, start) <= Deadline

\* while (millis() - startWait < 500)   (1000 in the standalone sketch)
HeaderWaitOpen(t, start) == Elapsed(t, start) < Deadline

\* a read of the payload that waits without any timeout
ReadWaitForever(t, start) == TRUE

\* Serial.readBytes waits for each byte while millis() - _startMillis <
\* _timeout; no sketch calls setTimeout, so _timeout is the default 1000
ReadWaitOpen(t, start) == Elapsed(t, start) < StreamTimeout

\* a header loop that compares a reading of millis() taken once, before the
\* loop: for the loop no time passes
SyncAdvanceFrozen(d) == 0

\* time that passes when the header loop is left d ms with nothing to read:
\* the loop ends at the first millisecond at which its guard is false
SyncAdvance(d) ==
    LET closed == {e \in 1..d : ~HeaderWaitOpen(After(now, e), startWait)}
    IN  IF closed = {} THEN d ELSE Min(closed)

\* time that passes when loop() is called again and again for d ms with no
\* poll running: the first call that finds the timer expired starts a cycle.
\* The outcome of the test can change only where the elapsed time passes the
\* interval, so the test is looked at in the first millisecond, in the three
\* around the interval and in the last.
LoopAdvance(d) ==
    LET left == PollInterval - Elapsed(now, lastFetch)
        due  == {e \in {1, left - 1, left, left + 1, d} :
                    e >= 1 /\ e <= d /\ PollDue(After(now, e), lastFetch)}
    IN  IF due = {} THEN d ELSE Min(due)

\* the same for the wait of readBytes for the next byte
ReadAdvance(d) ==
    LET closed == {e \in 1..d : ~ReadWaitOpen(After(now, e), readStart)}
    IN  IF closed = {} THEN d ELSE Min(closed)

----------------------------------------------------------------------------
(* Header search *)

\* a header test that forgets the fourth byte
HeaderMatchThree(buf) == buf[1] = Hdr[1] /\ buf[2] = Hdr[2] /\ buf[3] = Hdr[3]

\* Serial.read() == 0x5A && Serial.read() == 0x5A &&
\* Serial.read() == 0x02 && Serial.read() == 0x06
HeaderMatch(buf) ==
    buf[1] = Hdr[1] /\ buf[2] = Hdr[2] /\ buf[3] = Hdr[3] /\ buf[4] = Hdr[4]

\* a search that empties the buffer when the candidate is rejected
HeaderReadsFlush(buf) == IF HeaderMatch(buf) THEN 4 ELSE Len(buf)

\* number of Serial.read() calls the && chain makes on buf: it stops at
\* the first byte that differs, and that byte is consumed
HeaderReads(buf) ==
    IF buf[1] # Hdr[1] THEN 1
    ELSE IF buf[2] # Hdr[2] THEN 2
    ELSE IF buf[3] # Hdr[3] THEN 3
    ELSE 4

----------------------------------------------------------------------------
(* Decoding *)

\* int16_t raw = (rawData[i*2+1] << 8) | rawData[i*2]: the 16-bit pattern
\* hi*256 + lo converted to int16_t
ToInt16(v) == IF v >= 32768 THEN v - 65536 ELSE v

\* a reconstruction that takes the first byte of a pixel as the high byte
PixelRawBigEndian(raw, i) == ToInt16(raw[2 * i - 1] * 256 + raw[2 * i])

\* a reconstruction that keeps the 16 bits unsigned (raw held in an int)
PixelRawUnsigned(raw, i) == raw[2 * i] * 256 + raw[2 * i - 1]

\* raw value of pixel i (i from 1): bytes rawData[2(i-1)] and rawData[2(i-1)+1]
PixelRaw(raw, i) == ToInt16(raw[2 * i] * 256 + raw[2 * i - 1])

\* float t = raw / 100.0, in hundredths of a degree
Temp(r) == r

\* the filter without its lower test
InRangeUpperOnly(t) == t < HighLimit * 100

\* the filter with the lower limit included
InRangeHalfOpen(t) == t >= LowLimit * 100 /\ t < HighLimit * 100

\* the filter with the limits included
InRangeClosed(t) == t >= LowLimit * 100 /\ t <= HighLimit * 100

\* if (t > -40.0 && t < 300.0)
InRange(t) == t > LowLimit * 100 /\ t < HighLimit * 100

\* a decoder that verifies the checksum: it decodes only when the two last
\* bytes are the sum of the bytes before them, low byte first
DecodeFrameChecked(raw, fr) ==
    LET RECURSIVE Sum(_)
        Sum(k) == IF k = 0 THEN 0 ELSE raw[k] + Sum(k - 1)
        total == Sum(PixelBytes + 2) % 65536
    IN  [i \in 1..NumPixels |->
            IF /\ raw[PixelBytes + 3] = total % 256
               /\ raw[PixelBytes + 4] = total \div 256
               /\ InRange(Temp(PixelRaw(raw, i)))
            THEN Temp(PixelRaw(raw, i))
            ELSE fr[i]]

\* a decoder that smooths: an accepted value is averaged with the cell
DecodeFrameSmooth(raw, fr) ==
    [i \in 1..NumPixels |->
        IF InRange(Temp(PixelRaw(raw, i)))
        THEN (Temp(PixelRaw(raw, i)) + fr[i]) \div 2
        ELSE fr[i]]

\* a decoder that accumulates: an accepted value is added to the cell
DecodeFrameAccumulate(raw, fr) ==
    [i \in 1..NumPixels |->
        IF InRange(Temp(PixelRaw(raw, i)))
        THEN fr[i] + Temp(PixelRaw(raw, i))
        ELSE fr[i]]

\* decodeFrame() / the pixel loop of decodeAndShow()
DecodeFrame(raw, fr) ==
    [i \in 1..NumPixels |->
        IF InRange(Temp(PixelRaw(raw, i))) THEN Temp(PixelRaw(raw, i)) ELSE fr[i]]

\* int16_t taRaw = (rawData[1537] << 8) | rawData[1536]; ta = taRaw / 100.0
DecodeAmbient(raw) == Temp(ToInt16(raw[PixelBytes + 2] * 256 + raw[PixelBytes + 1]))

----------------------------------------------------------------------------
(* The ASCII picture of decodeAndShow() *)

Max(S) == CHOOSE x \in S : \A y \in S : x >= y

\* float minT = 100, maxT = -100;  const char* ramp = " .:-=+*#%@"
MinTStart == 100
MaxTStart == -100
RampLast == 9

\* the values of rawData that the filter accepts
Accepted(raw) ==
    {Temp(PixelRaw(raw, i)) : i \in {j \in 1..NumPixels :
                                        InRange(Temp(PixelRaw(raw, j)))}}

\* if (t < minT) minT = t;  if (t > maxT) maxT = t;  over the accepted values
MinT(raw) == Min(Accepted(raw) \cup {MinTStart * 100})
MaxT(raw) == Max(Accepted(raw) \cup {MaxTStart * 100})

\* constrain(amt, low, high): ((amt)<(low)?(low):((amt)>(high)?(high):(amt)))
constrain(amt, low, high) ==
    IF amt < low THEN low ELSE IF amt > high THEN high ELSE amt

\* a float given for a long parameter: the fraction is dropped
ToLong(t) == IF t >= 0 THEN t \div 100 ELSE -((-t) \div 100)

\* the division of two longs: the quotient is truncated toward zero
CDiv(a, b) ==
    LET q == (IF a < 0 THEN -a ELSE a) \div (IF b < 0 THEN -b ELSE b)
    IN  IF (a < 0) # (b < 0) THEN -q ELSE q

\* what a division by zero in map() may give: no value (the processor traps
\* and the sketch restarts) or the value -1
ZeroDivisorResults == {<<>>, <<-1>>}

\* long map(long x, long in_min, long in_max, long out_min, long out_max):
\* (x - in_min) * (out_max - out_min) / (in_max - in_min) + out_min, as
\* <<value>>; z is what the division gives when in_max = in_min
map(x, in_min, in_max, out_min, out_max, z) ==
    IF in_max - in_min = 0 THEN z
    ELSE <<CDiv((x - in_min) * (out_max - out_min), in_max - in_min) + out_min>>

\* int val = map(constrain(frame[y*32+x], minT, maxT), minT, maxT, 0, 9)
\* for the cells of the printed rows; the grid of the model is one row, row 0
RampVals(raw, fr, z) ==
    [i \in 1..NumPixels |->
        map(ToLong(constrain(fr[i], MinT(raw), MaxT(raw))),
            ToLong(MinT(raw)), ToLong(MaxT(raw)), 0, RampLast, z)]

\* the pictures decodeAndShow() may print for rawData raw and the grid fr
Shows(raw, fr) == {RampVals(raw, fr, z) : z \in ZeroDivisorResults}

----------------------------------------------------------------------------
(* The sensor: what it may answer to a query *)

\* the two bytes of a raw value, low byte first
Lo(r) == (r % 65536) % 256
Hi(r) == (r % 65536) \div 256

\* a frame whose pixel i holds Pix[i], ambient ta, checksum bytes c1 c2
Payload(Pix, ta, c1, c2) ==
    [k \in 1..FrameBytes |->
        IF k <= PixelBytes
        THEN (IF k % 2 = 1 THEN Lo(Pix[(k + 1) \div 2]) ELSE Hi(Pix[k \div 2]))
        ELSE IF k = PixelBytes + 1 THEN Lo(ta)
        ELSE IF k = PixelBytes + 2 THEN Hi(ta)
        ELSE IF k = PixelBytes + 3 THEN c1 ELSE c2]

\* a warm scene, and a scene whose odd pixels are out of range (300.00 C)
WarmScene == Payload([i \in 1..NumPixels |-> 2500 + i], 2150, 17, 34)
EdgeScene == Payload([i \in 1..NumPixels |->
                        IF i % 2 = 1 THEN 30000 ELSE -3999], -4100, 0, 0)

\* answers, each a sequence of chunks that arrive one at a time: nothing,
\* a frame at once, a frame whose header arrives in two parts, a frame
\* behind a byte 5A, a frame cut short, a frame behind a rejected header,
\* a frame behind a zero byte
Responses ==
    { <<>>,
      << Hdr \o WarmScene >>,
      << <<90, 90>>, <<2, 6>> \o EdgeScene >>,
      << <<90>> \o Hdr \o WarmScene >>,
      << Hdr \o SubSeq(WarmScene, 1, FrameBytes - 3) >>,
      << <<90, 90, 2, 153>>, Hdr \o EdgeScene >>,
      << <<0>> \o Hdr \o WarmScene >> }

LoopSteps == {1000, 1001}
SyncSteps == {400}
ReadSteps == {1024}

\* millis() when setup() returns on a fresh boot
BootMillis == 2000
StartTimes == {BootMillis, ClockMod - 700}

----------------------------------------------------------------------------
(* Initial state: setup() has run.  The clock either shows the time of a *)
(* fresh boot or is about to wrap, 600 ms after a poll that timed out.   *)

Init ==
    /\ variant \in {"wifi", "standalone"}
    /\ now \in StartTimes
    /\ pc = "loop"
    /\ lastFetch = IF now = BootMillis THEN 0 ELSE Elapsed(now, 600)
    /\ startWait = 0
    /\ headerFound = FALSE
    /\ received = 0
    /\ readStart = 0
    /\ rawData = [k \in 1..FrameBytes |-> 0]
    /\ frame = [i \in 1..NumPixels |-> 0]
    /\ ambient = 0
    /\ clients = 0
    /\ rx = <<>>
    /\ wire = <<>>
    /\ polls = 0
    /\ outcome = "none"
    /\ tx = <<>>
    /\ arrived = <<>>
    /\ staleBytes = 0
    /\ taken = <<>>
    /\ scene = [pix |-> <<>>, ta |-> 0]
    /\ frame0 = frame
    /\ decodes = 0
    /\ sent = <<>>
    /\ reported = -1
    /\ waited = 0
    /\ loopElapsed = 0
    /\ loopPolled = FALSE
    /\ sincePoll = IF now = BootMillis THEN BootMillis ELSE 600
    /\ pollGap = -1
    /\ sinceStart = 0
    /\ sentAt = -1
    /\ sentGap = -1
    /\ shown = <<>>

----------------------------------------------------------------------------
(* Actions *)

\* variables of the timer test of loop()
loopVars == <<loopElapsed, loopPolled>>
\* the locals of requestSensorData() and the records of the current cycle
cycleVars == <<startWait, headerFound, received, readStart, tx, arrived,
               staleBytes, taken, frame0, decodes, sent, reported, waited,
               sentGap, shown>>
\* the true durations
timeVars == <<sincePoll, pollGap, sinceStart>>

\* a cycle that, when it is over, starts the next one from inside itself
IdleNested == "drain"

\* where the program goes when a cycle is over
Idle == IF variant = "wifi" THEN "loop" ELSE "delay"

\* entry of a poll cycle: the locals and the per-cycle records start afresh
BeginCycle ==
    /\ polls < MaxPolls
    /\ polls' = polls + 1
    /\ pc' = "drain"
    /\ startWait' = 0
    /\ headerFound' = FALSE
    /\ received' = 0
    /\ readStart' = 0
    /\ tx' = <<>>
    /\ arrived' = <<>>
    /\ staleBytes' = 0
    /\ taken' = <<>>
    /\ frame0' = frame
    /\ decodes' = 0
    /\ sent' = <<>>
    /\ reported' = -1
    /\ waited' = 0
    /\ sentGap' = -1
    /\ shown' = <<>>

\* the next chunk of the sensor's bytes reaches the receive buffer
Deliver ==
    /\ wire # <<>>
    /\ rx' = rx \o Head(wire)
    /\ arrived' = arrived \o Head(wire)
    /\ wire' = Tail(wire)
    /\ UNCHANGED <<variant, now, pc, lastFetch, startWait, headerFound, received,
                   readStart, rawData, frame, ambient, clients, polls, outcome,
                   tx, staleBytes, taken, scene, frame0, decodes, sent, reported,
                   waited, loopVars, timeVars, sentAt, sentGap,
                   shown>>

\* loop() of the WiFi sketches is called again and again for up to d ms:
\* server.handleClient(); webSocket.loop(); then the timer test
Loop(d, c) ==
    LET e == LoopAdvance(d) IN
    /\ variant = "wifi"
    /\ pc = "loop"
    /\ now' = After(now, e)
    /\ clients' = c
    /\ loopElapsed' = Elapsed(now', lastFetch)
    /\ loopPolled' = PollDue(now', lastFetch)
    /\ IF PollDue(now', lastFetch)
       THEN /\ lastFetch' = now'
            /\ BeginCycle
            /\ pollGap' = Capped(sincePoll + e)
            /\ sincePoll' = 0
            /\ sinceStart' = 0
       ELSE /\ sincePoll' = Capped(sincePoll + e)
            /\ UNCHANGED <<pc, lastFetch, polls, cycleVars, pollGap, sinceStart>>
    /\ UNCHANGED <<variant, rawData, frame, ambient, rx, wire, outcome, scene,
                   sentAt>>

\* loop() of the standalone sketch starts
StandaloneLoop ==
    /\ variant = "standalone"
    /\ pc = "loop"
    /\ BeginCycle
    /\ pollGap' = sincePoll
    /\ sincePoll' = 0
    /\ sinceStart' = 0
    /\ UNCHANGED <<variant, now, lastFetch, rawData, frame, ambient, clients, rx,
                   wire, outcome, scene, loopVars, sentAt>>

\* delay(5000) at the end of the standalone loop()
Delay ==
    /\ pc = "delay"
    /\ now' = After(now, DelayMs)
    /\ pc' = "loop"
    /\ sincePoll' = Capped(sincePoll + DelayMs)
    /\ UNCHANGED <<variant, lastFetch, rawData, frame, ambient, clients, rx, wire,
                   polls, outcome, scene, cycleVars, loopVars, pollGap,
                   sinceStart, sentAt>>

\* while (Serial.available() > 0) Serial.read();  one pass over what is there
Drain ==
    /\ pc = "drain"
    /\ rx # <<>>
    /\ rx' = <<>>
    /\ UNCHANGED <<variant, now, pc, lastFetch, rawData, frame, ambient, clients,
                   wire, polls, outcome, scene, cycleVars, loopVars, timeVars,
                   sentAt>>

\* the buffer is empty: Serial.write(askData, 4); startWait = millis();
\* headerFound = false.  The sensor chooses what it will answer.
SendQuery(resp) ==
    /\ pc = "drain"
    /\ rx = <<>>
    /\ tx' = Append(tx, askData)
    /\ wire' = wire \o resp
    /\ startWait' = now
    /\ headerFound' = FALSE
    /\ pc' = "sync"
    /\ arrived' = <<>>
    /\ staleBytes' = WireLen(wire)
    /\ sinceStart' = 0
    /\ UNCHANGED <<variant, now, lastFetch, received, readStart, rawData, frame,
                   ambient, clients, rx, polls, outcome, taken, scene, frame0,
                   decodes, sent, reported, waited, loopVars, sincePoll, pollGap,
                   sentAt, sentGap,
                   shown>>

\* one pass of the header loop with at least 4 bytes available
HeaderIter ==
    /\ pc = "sync"
    /\ HeaderWaitOpen(now, startWait)
    /\ Len(rx) >= 4
    /\ taken' = taken \o SubSeq(rx, 1, HeaderReads(rx))
    /\ rx' = SubSeq(rx, HeaderReads(rx) + 1, Len(rx))
    /\ IF HeaderMatch(rx)
       THEN /\ headerFound' = TRUE
            /\ waited' = Elapsed(now, startWait)
            /\ readStart' = now
            /\ pc' = "read"
       ELSE UNCHANGED <<headerFound, waited, readStart, pc>>
    /\ UNCHANGED <<variant, now, lastFetch, startWait, received, rawData, frame,
                   ambient, clients, wire, polls, outcome, tx, arrived, staleBytes,
                   scene, frame0, decodes, sent, reported, loopVars, timeVars,
                   sentAt, sentGap,
                   shown>>

\* the header loop spins with fewer than 4 bytes available
SyncWait(d) ==
    /\ pc = "sync"
    /\ HeaderWaitOpen(now, startWait)
    /\ Len(rx) < 4
    /\ now' = After(now, SyncAdvance(d))
    /\ sincePoll' = Capped(sincePoll + SyncAdvance(d))
    /\ sinceStart' = Capped(sinceStart + SyncAdvance(d))
    /\ UNCHANGED <<variant, pc, lastFetch, rawData, frame, ambient, clients, rx,
                   wire, polls, outcome, scene, cycleVars, loopVars, pollGap,
                   sentAt>>

\* a payload read that is made whether or not the header was found
ReadsPayloadAlways(found) == TRUE

\* if (headerFound) { ... readBytes ... }
ReadsPayload(found) == found

\* the header loop ends on its deadline: headerFound is false, the test
\* if (headerFound) fails and the cycle is over
HeaderTimeout ==
    /\ pc = "sync"
    /\ ~HeaderWaitOpen(now, startWait)
    /\ waited' = Elapsed(now, startWait)
    /\ IF ReadsPayload(headerFound)
       THEN pc' = "read" /\ readStart' = now /\ UNCHANGED outcome
       ELSE outcome' = "timeout" /\ pc' = Idle /\ UNCHANGED readStart
    /\ UNCHANGED <<variant, now, lastFetch, startWait, headerFound, received,
                   rawData, frame, ambient, clients, rx, wire, polls,
                   tx, arrived, staleBytes, taken, scene, frame0, decodes, sent,
                   reported, loopVars, timeVars, sentAt, sentGap,
                   shown>>

\* rawData with the first k bytes of buf stored from index n on (n from 0)
Store(raw, buf, n, k) ==
    [j \in 1..FrameBytes |-> IF j > n /\ j <= n + k THEN buf[j - n] ELSE raw[j]]

\* number of bytes readBytes takes from the buffer now
Take == IF Len(rx) < FrameBytes - received THEN Len(rx) ELSE FrameBytes - received

\* a completeness test that accepts any non-empty read
FrameCompleteAny(n) == n > 0

\* if (received == 1540)
FrameComplete(n) == n = FrameBytes

\* a broadcast that is skipped when nobody is connected
BroadcastToClients(s, fr) ==
    IF clients > 0 THEN Append(s, [data |-> fr, size |-> SizeofFrame]) ELSE s

\* a broadcast made before decodeFrame(): it sends the grid as it still is
BroadcastStale(s, fr) == Append(s, [data |-> frame, size |-> SizeofFrame])

\* a broadcast given the number of cells as its length in bytes: only the
\* cells that fit in that many bytes are sent
BroadcastPartial(s, fr) ==
    Append(s, [data |-> [i \in 1..(NumPixels \div FloatSize) |-> fr[i]],
               size |-> NumPixels])

\* webSocket.broadcastBIN((uint8_t*)frame, sizeof(frame)) appended to the log s
Broadcast(s, fr) == Append(s, [data |-> fr, size |-> SizeofFrame])

\* what follows readBytes, which returned n with the buffer raw:
\* decodeFrame() and the broadcast (decodeAndShow() in the standalone
\* sketch), or the message "Trame incomplete (n/1540)"
AfterRead(n, raw) ==
    /\ IF FrameComplete(n)
       THEN /\ frame' = DecodeFrame(raw, frame)
            /\ decodes' = decodes + 1
            /\ ambient' = IF variant = "standalone" THEN DecodeAmbient(raw)
                          ELSE ambient
            /\ sent' = IF variant = "wifi" THEN Broadcast(sent, frame') ELSE sent
            /\ sentAt' = IF variant = "wifi" THEN now ELSE sentAt
            /\ sentGap' = IF variant = "wifi" /\ sentAt # -1
                           THEN Elapsed(now, sentAt) ELSE sentGap
            /\ shown' \in IF variant = "standalone" THEN Shows(raw, frame')
                           ELSE {shown}
            /\ outcome' = "success"
            /\ UNCHANGED reported
       ELSE /\ reported' = n
            /\ outcome' = "short"
            /\ UNCHANGED <<frame, decodes, ambient, sent, sentAt, sentGap,
                   shown>>

\* Serial.readBytes(rawData, 1540) stores the bytes that are available; with
\* the 1540th it returns
ReadAvail ==
    /\ pc = "read"
    /\ rx # <<>>
    /\ rawData' = Store(rawData, rx, received, Take)
    /\ received' = received + Take
    /\ taken' = taken \o SubSeq(rx, 1, Take)
    /\ rx' = SubSeq(rx, Take + 1, Len(rx))
    /\ readStart' = now
    /\ IF received' = FrameBytes
       THEN AfterRead(received', rawData') /\ pc' = Idle
       ELSE UNCHANGED <<frame, decodes, ambient, sent, outcome, reported, pc,
                        sentAt, sentGap,
                   shown>>
    /\ UNCHANGED <<variant, now, lastFetch, startWait, headerFound, clients, wire,
                   polls, tx, arrived, staleBytes, scene, frame0, waited, loopVars,
                   timeVars>>

\* readBytes waits for the next byte
ReadWait(d) ==
    /\ pc = "read"
    /\ rx = <<>>
    /\ ReadWaitOpen(now, readStart)
    /\ now' = After(now, ReadAdvance(d))
    /\ sincePoll' = Capped(sincePoll + ReadAdvance(d))
    /\ UNCHANGED <<variant, pc, lastFetch, rawData, frame, ambient, clients, rx,
                   wire, polls, outcome, scene, cycleVars, loopVars, pollGap,
                   sinceStart, sentAt>>

\* readBytes gives up waiting and returns the count it has
ReadTimeout ==
    /\ pc = "read"
    /\ rx = <<>>
    /\ ~ReadWaitOpen(now, readStart)
    /\ AfterRead(received, rawData)
    /\ pc' = Idle
    /\ UNCHANGED <<variant, now, lastFetch, startWait, headerFound, received,
                   readStart, rawData, clients, rx, wire, polls, tx, arrived,
                   staleBytes, taken, scene, frame0, waited, loopVars, timeVars>>

\* what the sketch does by itself: every action but the sensor's
Program ==
    \/ \E d \in LoopSteps, c \in 0..MaxClients : Loop(d, c)
    \/ StandaloneLoop
    \/ Delay
    \/ Drain
    \/ \E resp \in Responses : SendQuery(resp)
    \/ HeaderIter
    \/ \E d \in SyncSteps : SyncWait(d)
    \/ HeaderTimeout
    \/ ReadAvail
    \/ \E d \in ReadSteps : ReadWait(d)
    \/ ReadTimeout

Next == Deliver \/ Program

Spec == Init /\ [][Next]_vars

\* the sketch keeps running and the clock keeps advancing; nothing is
\* assumed of the sensor
FairSpec == Spec /\ WF_vars(Program)

----------------------------------------------------------------------------
(* The decoder alone: readBytes has stored a whole frame that the sensor *)
(* encoded from raw values of its choice, and the sketch decodes it.     *)

\* raw values the sensor may encode: the limits of int16 and of the filter
RawSamples == {-32768, -4000, -3999, 29999, 30000, 32767}
AmbientSamples == {-4100, 2150}

InitDecode ==
    /\ variant \in {"wifi", "standalone"}
    /\ now = BootMillis
    /\ pc = "load"
    /\ lastFetch = 0
    /\ startWait = 0
    /\ headerFound = FALSE
    /\ received = 0
    /\ readStart = 0
    /\ rawData = [k \in 1..FrameBytes |-> 0]
    /\ frame = [i \in 1..NumPixels |-> 0]
    /\ ambient = 0
    /\ clients = 0
    /\ rx = <<>>
    /\ wire = <<>>
    /\ polls = 0
    /\ outcome = "none"
    /\ tx = <<>>
    /\ arrived = <<>>
    /\ staleBytes = 0
    /\ taken = <<>>
    /\ scene = [pix |-> <<>>, ta |-> 0]
    /\ frame0 = frame
    /\ decodes = 0
    /\ sent = <<>>
    /\ reported = -1
    /\ waited = 0
    /\ loopElapsed = 0
    /\ loopPolled = FALSE
    /\ sincePoll = IF now = BootMillis THEN BootMillis ELSE 600
    /\ pollGap = -1
    /\ sinceStart = 0
    /\ sentAt = -1
    /\ sentGap = -1
    /\ shown = <<>>

\* a cycle in which the header matched and readBytes returned 1540: rawData
\* holds the frame the sensor encoded from the raw values pix and ta
LoadFrame(pix, ta) ==
    /\ pc = "load"
    /\ polls < MaxPolls
    /\ polls' = polls + 1
    /\ scene' = [pix |-> pix, ta |-> ta]
    /\ rawData' = Payload(pix, ta, 0, 0)
    /\ headerFound' = TRUE
    /\ received' = FrameBytes
    /\ frame0' = frame
    /\ decodes' = 0
    /\ sent' = <<>>
    /\ sentGap' = -1
    /\ shown' = <<>>
    /\ pc' = "decode"
    /\ UNCHANGED <<variant, now, lastFetch, startWait, readStart, frame, ambient,
                   clients, rx, wire, outcome, tx, arrived, staleBytes, taken,
                   reported, waited, loopVars, timeVars, sentAt>>

\* if (received == 1540) { decodeFrame(); broadcastBIN(...) }
DecodeLoaded ==
    /\ pc = "decode"
    /\ AfterRead(received, rawData)
    /\ pc' = "load"
    /\ UNCHANGED <<variant, now, lastFetch, startWait, headerFound, received,
                   readStart, rawData, clients, rx, wire, polls, tx, arrived,
                   staleBytes, taken, scene, frame0, waited, loopVars, timeVars>>

NextDecode ==
    \/ \E pix \in [1..NumPixels -> RawSamples], ta \in AmbientSamples :
          LoadFrame(pix, ta)
    \/ DecodeLoaded

DecodeSpec == InitDecode /\ [][NextDecode]_vars

----------------------------------------------------------------------------
(* The decoder on every pair of bytes: readBytes has stored a frame whose *)
(* pixels all hold the bytes lo, hi, and the sketch decodes it.           *)

\* the frames whose pixels are all lo hi, for every lo and hi of a byte
ByteFrames ==
    { [k \in 1..FrameBytes |->
          IF k > PixelBytes THEN 0 ELSE IF k % 2 = 1 THEN lo ELSE hi] :
      lo \in 0..255, hi \in 0..255 }

InitBytes ==
    /\ variant \in {"wifi", "standalone"}
    /\ now = BootMillis
    /\ pc = "decode"
    /\ lastFetch = 0
    /\ startWait = 0
    /\ headerFound = TRUE
    /\ received = FrameBytes
    /\ readStart = 0
    /\ rawData \in ByteFrames
    /\ frame = [i \in 1..NumPixels |-> 0]
    /\ ambient = 0
    /\ clients = 0
    /\ rx = <<>>
    /\ wire = <<>>
    /\ polls = 1
    /\ outcome = "none"
    /\ tx = <<>>
    /\ arrived = <<>>
    /\ staleBytes = 0
    /\ taken = <<>>
    /\ scene = [pix |-> <<>>, ta |-> 0]
    /\ frame0 = frame
    /\ decodes = 0
    /\ sent = <<>>
    /\ reported = -1
    /\ waited = 0
    /\ loopElapsed = 0
    /\ loopPolled = FALSE
    /\ sincePoll = IF now = BootMillis THEN BootMillis ELSE 600
    /\ pollGap = -1
    /\ sinceStart = 0
    /\ sentAt = -1
    /\ sentGap = -1
    /\ shown = <<>>

NextBytes == DecodeLoaded

ByteSpec == InitBytes /\ [][NextBytes]_vars

----------------------------------------------------------------------------
(* The decoder on every accepted value: the sensor has encoded a grid of  *)
(* temperatures of its range, readBytes has stored the frame, and the     *)
(* sketch decodes it into a grid that holds earlier values.               *)

\* the raw values of the temperatures of the open range (-40, 300)
RangeRaws == (LowLimit * 100 + 1)..(HighLimit * 100 - 1)

\* values the cells hold before the decode
PriorValues == {0, HighLimit * 100 - 1}

\* the grid the sensor encodes: r in the first pixel, then the values that
\* mirror it in the range
RoundGrid(r) ==
    [i \in 1..NumPixels |->
        IF i = 1 THEN r ELSE LowLimit * 100 + HighLimit * 100 - r]

InitRound ==
    \E r \in RangeRaws, p \in PriorValues :
        /\ variant \in {"wifi", "standalone"}
        /\ now = BootMillis
        /\ pc = "decode"
        /\ lastFetch = 0
        /\ startWait = 0
        /\ headerFound = TRUE
        /\ received = FrameBytes
        /\ readStart = 0
        /\ rawData = Payload(RoundGrid(r), 0, 0, 0)
        /\ frame = [i \in 1..NumPixels |-> p]
        /\ ambient = 0
        /\ clients = 0
        /\ rx = <<>>
        /\ wire = <<>>
        /\ polls = 1
        /\ outcome = "none"
        /\ tx = <<>>
        /\ arrived = <<>>
        /\ staleBytes = 0
        /\ taken = <<>>
        /\ scene = [pix |-> RoundGrid(r), ta |-> 0]
        /\ frame0 = frame
        /\ decodes = 0
        /\ sent = <<>>
        /\ reported = -1
        /\ waited = 0
        /\ loopElapsed = 0
        /\ loopPolled = FALSE
        /\ sincePoll = BootMillis
        /\ pollGap = -1
        /\ sinceStart = 0
        /\ sentAt = -1
        /\ sentGap = -1
        /\ shown = <<>>

NextRound == DecodeLoaded

RoundSpec == InitRound /\ [][NextRound]_vars

----------------------------------------------------------------------------
(* The early SoftwareSerial sketch (variant "early"): setup() waits 2 s and *)
(* writes the query once; loop() looks for a header in the bytes that are   *)
(* there, reads 1536 bytes with readBytes and parses them.  In this sketch  *)
(* taken records what each ThermalSerial.read() returned, -1 included.      *)

\* ThermalSerial.read() number k of one run of loop() on the buffer buf: the
\* k-th byte, or -1 when the buffer holds fewer than k bytes
ReadAt(buf, k) == IF Len(buf) >= k THEN buf[k] ELSE -1

\* the values the calls of read() return in one run of loop() that found
\* available() >= 2:  read() == 0x5A && read() == 0x5A, then
\* read() == 0x02, then dataLen = read()
EarlyReads(buf) ==
    IF buf[1] # 90 THEN <<buf[1]>>
    ELSE IF buf[2] # 90 THEN <<buf[1], buf[2]>>
    ELSE IF ReadAt(buf, 3) # 2 THEN <<buf[1], buf[2], ReadAt(buf, 3)>>
    ELSE <<buf[1], buf[2], ReadAt(buf, 3), ReadAt(buf, 4)>>

\* the run of loop() goes on to readBytes: all four reads were made
EarlyAccepts(buf) == Len(EarlyReads(buf)) = 4

\* number of bytes these reads took out of the buffer
EarlyConsumed(buf) ==
    IF Len(EarlyReads(buf)) < Len(buf) THEN Len(EarlyReads(buf)) ELSE Len(buf)

\* parsePixels(): int16_t tempInt = (rawData[i*2] << 8) | rawData[i*2+1];
\* frame[i] = tempInt / 100.0
parsePixels(raw) ==
    [i \in 1..NumPixels |-> Temp(ToInt16(raw[2 * i - 1] * 256 + raw[2 * i]))]

\* what the sensor may send after the query of setup(): a frame at once, a
\* frame whose header arrives in two parts, or in three bytes and one, a
\* frame whose fourth header byte is not 06, a frame cut short
EarlyAnswers ==
    { << Hdr \o WarmScene >>,
      << <<90, 90>>, <<2, 6>> \o EdgeScene >>,
      << <<90, 90, 2>>, <<6>> \o WarmScene >>,
      << <<90, 90, 2, 153>> \o EdgeScene >>,
      << Hdr \o SubSeq(WarmScene, 1, PixelBytes - 1) >> }

InitEarly ==
    /\ variant = "early"
    /\ now = BootMillis
    /\ pc = "loop"
    /\ lastFetch = 0
    /\ startWait = 0
    /\ headerFound = FALSE
    /\ received = 0
    /\ readStart = 0
    /\ rawData = [k \in 1..FrameBytes |-> 0]
    /\ frame = [i \in 1..NumPixels |-> 0]
    /\ ambient = 0
    /\ clients = 0
    /\ rx = <<>>
    /\ \E a \in EarlyAnswers, b \in EarlyAnswers : wire = a \o b
    /\ polls = 0
    /\ outcome = "none"
    /\ tx = <<askData>>
    /\ arrived = <<>>
    /\ staleBytes = 0
    /\ taken = <<>>
    /\ scene = [pix |-> <<>>, ta |-> 0]
    /\ frame0 = frame
    /\ decodes = 0
    /\ sent = <<>>
    /\ reported = -1
    /\ waited = 0
    /\ loopElapsed = 0
    /\ loopPolled = FALSE
    /\ sincePoll = BootMillis
    /\ pollGap = -1
    /\ sinceStart = 0
    /\ sentAt = -1
    /\ sentGap = -1
    /\ shown = <<>>

\* a run of loop() that finds at least two bytes
EarlyLoop ==
    /\ variant = "early"
    /\ pc = "loop"
    /\ Len(rx) >= 2
    /\ taken' = taken \o EarlyReads(rx)
    /\ rx' = SubSeq(rx, EarlyConsumed(rx) + 1, Len(rx))
    /\ headerFound' = EarlyAccepts(rx)
    /\ IF EarlyAccepts(rx)
       THEN /\ pc' = "read"
            /\ received' = 0
            /\ readStart' = now
       ELSE UNCHANGED <<pc, received, readStart>>
    /\ UNCHANGED <<variant, now, lastFetch, startWait, rawData, frame, ambient,
                   clients, wire, polls, outcome, tx, arrived, staleBytes, scene,
                   frame0, decodes, sent, reported, waited, loopVars, timeVars,
                   sentAt, sentGap,
                   shown>>

\* number of bytes readBytes(rawData, 1536) takes from the buffer now
EarlyTake ==
    IF Len(rx) < PixelBytes - received THEN Len(rx) ELSE PixelBytes - received

\* ThermalSerial.readBytes(rawData, 1536) stores the bytes that are there;
\* with the 1536th it returns and parsePixels() runs
EarlyReadAvail ==
    /\ variant = "early"
    /\ pc = "read"
    /\ rx # <<>>
    /\ rawData' = Store(rawData, rx, received, EarlyTake)
    /\ received' = received + EarlyTake
    /\ taken' = taken \o SubSeq(rx, 1, EarlyTake)
    /\ rx' = SubSeq(rx, EarlyTake + 1, Len(rx))
    /\ readStart' = now
    /\ IF received' = PixelBytes
       THEN /\ frame' = parsePixels(rawData')
            /\ decodes' = decodes + 1
            /\ outcome' = "success"
            /\ pc' = "loop"
       ELSE UNCHANGED <<frame, decodes, outcome, pc>>
    /\ UNCHANGED <<variant, now, lastFetch, startWait, headerFound, ambient,
                   clients, wire, polls, tx, arrived, staleBytes, scene, frame0,
                   sent, reported, waited, loopVars, timeVars, sentAt, sentGap,
                   shown>>

\* readBytes gives up waiting: received is not 1536 and nothing is parsed
EarlyReadTimeout ==
    /\ variant = "early"
    /\ pc = "read"
    /\ rx = <<>>
    /\ ~ReadWaitOpen(now, readStart)
    /\ outcome' = "short"
    /\ pc' = "loop"
    /\ UNCHANGED <<variant, now, lastFetch, startWait, headerFound, received,
                   readStart, rawData, frame, ambient, clients, rx, wire, polls,
                   tx, arrived, staleBytes, taken, scene, frame0, decodes, sent,
                   reported, waited, loopVars, timeVars, sentAt, sentGap,
                   shown>>

NextEarly ==
    \/ Deliver
    \/ EarlyLoop
    \/ EarlyReadAvail
    \/ \E d \in ReadSteps : ReadWait(d)
    \/ EarlyReadTimeout

EarlySpec == InitEarly /\ [][NextEarly]_vars

----------------------------------------------------------------------------
(* Properties *)

\* no cycle is running and the records describe the cycle that ended last
CycleOver == pc \in {"loop", "delay"} /\ polls > 0

\* a cycle is running
InCycle == pc \in {"drain", "sync", "read"}

\* s holds the header 5A 5A 02 06 somewhere
HasHeader(s) ==
    \E k \in 1..(Len(s) - 3) : SubSeq(s, k, k + 3) = <<90, 90, 2, 6>>

Zeros == [i \in 1..NumPixels |-> 0]

\* C1: the header search is bounded by its deadline: while the search runs
\* no more than the deadline (500 ms WiFi, 1000 ms standalone) has passed
\* since the query, and a search that fails ends with headerFound = false
\* no later than the deadline
C1_HeaderDeadline ==
    /\ pc = "sync" =>
          Elapsed(now, startWait) <= (IF variant = "wifi" THEN 500 ELSE 1000)
    /\ (CycleOver /\ outcome = "timeout") =>
          /\ ~headerFound
          /\ waited <= (IF variant = "wifi" THEN 500 ELSE 1000)

\* a search that failed on its deadline after reading bytes that are no header
C1_Witness ==
    /\ CycleOver /\ outcome = "timeout" /\ ~headerFound
    /\ taken # <<>> /\ waited > 0

\* C2: the header search loses no header: as long as the search goes on,
\* the bytes it has read hold no complete header, and a match is reported
\* at the first header of the stream
C2_NoHeaderLost ==
    /\ pc = "sync" => ~HasHeader(taken)
    /\ (pc = "read" /\ received = 0) =>
          ~HasHeader(SubSeq(taken, 1, Len(taken) - 1))

\* C3: a short read discards the cycle: when the payload read returned
\* n < 1540 bytes, nothing was decoded, every cell of frame[] is as before
\* the cycle, nothing was broadcast and the count reported is n
C3_ShortReadDiscards ==
    (CycleOver /\ headerFound /\ received < FrameBytes) =>
        /\ decodes = 0
        /\ frame = frame0
        /\ sent = <<>>
        /\ reported = received
        /\ outcome = "short"

\* a short read of some bytes in a cycle that started with a decoded grid
C3_Witness ==
    /\ CycleOver /\ headerFound
    /\ received > 0 /\ received < FrameBytes
    /\ frame0 # Zeros /\ frame = frame0

\* C4: after a decode, for every pixel i whose signed 16-bit raw value is
\* r, frame[i] is r/100 when r/100 lies strictly between -40 and 300
\* (r in -3999..29999) and is what it was before the decode otherwise
C4_FilterRetention ==
    (pc = "load" /\ polls > 0) =>
        \A i \in 1..NumPixels :
            frame[i] = IF scene.pix[i] \in -3999..29999
                       THEN scene.pix[i]
                       ELSE frame0[i]

\* a decode kept a cell that an earlier decode had written, and wrote another
C4_Witness ==
    /\ pc = "load" /\ polls > 1
    /\ \E i \in 1..NumPixels :
          /\ scene.pix[i] \notin -3999..29999
          /\ frame[i] = frame0[i] /\ frame0[i] # 0
    /\ \E i \in 1..NumPixels :
          /\ scene.pix[i] \in -3999..29999
          /\ frame[i] # frame0[i] /\ scene.pix[i] < 0

\* C5: every poll cycle writes the four bytes A5 35 01 DB to the sensor,
\* once, and nothing else, whatever the earlier cycles did
C5_QueryOncePerCycle ==
    /\ pc = "drain" => tx = <<>>
    /\ (pc \in {"sync", "read"} \/ CycleOver) => tx = << <<165, 53, 1, 219>> >>

\* the query has been written in the cycle that follows a header timeout
C5_Witness ==
    /\ polls = 2 /\ pc = "sync" /\ outcome = "timeout"
    /\ tx = << <<165, 53, 1, 219>> >>

\* C6: a run of loop() triggers a poll if and only if at least 1000 ms
\* have passed since lastFetch
C6_PollAtInterval == loopPolled <=> (loopElapsed >= 1000 /\ variant = "wifi")

\* C6, amended: a run of loop() triggers a poll if and only if more than
\* 1000 ms have passed since lastFetch, and lastFetch is then the time of
\* that run
C6_PollAfterInterval ==
    /\ loopPolled <=> (loopElapsed > 1000 /\ variant = "wifi")
    /\ (loopPolled /\ pc = "drain") => lastFetch = now

\* the second poll was triggered 1001 ms after the first
C6_Witness == loopPolled /\ loopElapsed = 1001 /\ polls = 2 /\ pc = "drain"

\* C7: in the WiFi sketches a cycle broadcasts once, the whole grid
\* (768 floats), when the header matched and 1540 bytes were read, and
\* never otherwise, whatever the number of subscribers
C7_PublishIffSuccess ==
    /\ InCycle => sent = <<>>
    /\ (CycleOver /\ variant = "wifi") =>
          IF headerFound /\ received = FrameBytes
          THEN /\ Len(sent) = 1
               /\ sent[1].size = 4 * NumPixels
               /\ DOMAIN sent[1].data = 1..NumPixels
               /\ decodes = 1
          ELSE sent = <<>> /\ decodes = 0
    /\ variant = "standalone" => sent = <<>>

\* a frame was broadcast while no subscriber was connected
C7_Witness ==
    /\ CycleOver /\ variant = "wifi" /\ clients = 0
    /\ headerFound /\ received = FrameBytes /\ Len(sent) = 1

\* C8: the scheduler always proceeds: whatever the outcomes so far, as long
\* as fewer than MaxPolls cycles were started another one is started
C8_AlwaysNextPoll ==
    \A n \in 0..(MaxPolls - 1) : (polls = n) ~> (polls = n + 1)

\* a cycle was started after a timeout, and the one before had a short read
C8_Witness == polls = 2 /\ pc = "drain" /\ outcome \in {"timeout", "short"}

\* C9: from the trigger of a poll to its end no more than the header
\* deadline (500 ms) passes
C9_PollWithinDeadline ==
    (variant = "wifi" /\ InCycle) => Elapsed(now, lastFetch) <= 500

\* C10: headerFound is true only if the four bytes read last by the search
\* were 5A 5A 02 06, and rawData[0..n-1] holds the n bytes of the stream
\* that follow them, in order; the bytes read are the bytes that arrived
C10_MatchAndAlignment ==
    /\ (pc \in {"sync", "read"} \/ CycleOver) => taken \o rx = arrived
    /\ headerFound =>
          LET m == Len(taken) - received - 4
          IN  /\ m >= 0
              /\ SubSeq(taken, m + 1, m + 4) = <<90, 90, 2, 6>>
              /\ \A j \in 1..received : rawData[j] = taken[m + 4 + j]

\* a whole frame was read behind a header that was not at the start
C10_Witness ==
    /\ headerFound /\ received = FrameBytes
    /\ Len(taken) > FrameBytes + 4

\* s is a rejected candidate 5A 5A 02 x (x other than 06), then the header
\* 5A 5A 02 06, then a whole payload
FalseStart(s) ==
    /\ Len(s) = 8 + FrameBytes
    /\ SubSeq(s, 1, 3) = <<90, 90, 2>> /\ s[4] # 6
    /\ SubSeq(s, 5, 8) = <<90, 90, 2, 6>>

\* the header search of the running cycle has not reached its deadline
SearchOpen ==
    pc = "sync" /\ Elapsed(now, startWait) < (IF variant = "wifi" THEN 500 ELSE 1000)

C11_State ==
    (FalseStart(arrived) /\ (pc \in {"sync", "read"} \/ CycleOver)) =>
        /\ pc = "sync" =>
              /\ ~headerFound
              /\ taken = <<>> \/ taken = SubSeq(arrived, 1, 4)
        /\ SearchOpen => Len(rx) >= 4
        /\ pc = "read" => headerFound /\ taken = SubSeq(arrived, 1, 8)
        /\ (CycleOver /\ headerFound) =>
              /\ outcome = "success"
              /\ received = FrameBytes
              /\ rawData = SubSeq(arrived, 9, Len(arrived))

C11_Step ==
    /\ (SearchOpen /\ FalseStart(arrived) /\ arrived' = arrived) =>
          /\ now' = now
          /\ pc' \in {"sync", "read"}
          /\ Len(taken') = Len(taken) + 4
    /\ (pc = "read" /\ FalseStart(arrived) /\ arrived' = arrived) =>
          outcome' = "success" /\ pc' \in {"loop", "delay"}

\* C11: when a rejected candidate 5A 5A 02 x, a valid header and the 1540
\* payload bytes have arrived before the deadline, the search consumes the
\* four bytes of the candidate without a match, matches the header at its
\* next pass without waiting, and the read stores exactly the bytes behind
\* that header; the cycle ends in success, never in a timeout
C11_FalseStartRecovery == []C11_State /\ [][C11_Step]_vars

\* a cycle succeeded on the frame behind a rejected candidate
C11_Witness ==
    /\ CycleOver /\ FalseStart(arrived) /\ outcome = "success"
    /\ rawData = SubSeq(arrived, 9, Len(arrived))

C12_State ==
    /\ pc = "drain" =>
          tx = <<>> /\ taken = <<>> /\ received = 0 /\ decodes = 0 /\ sent = <<>>
    /\ taken # <<>> => tx # <<>>
    /\ received > 0 => headerFound
    /\ headerFound => Len(taken) >= 4 + received
    /\ decodes > 0 => headerFound /\ received = FrameBytes /\ decodes = 1
    /\ sent # <<>> => decodes = 1 /\ Len(sent) = 1 /\ sent[1].data = frame

C12_Step ==
    /\ tx' # tx /\ tx' # <<>> =>
          /\ pc = "drain" /\ rx = <<>>
          /\ taken' = <<>> /\ received' = 0 /\ ~headerFound'
    /\ taken' # taken /\ taken' # <<>> => tx # <<>>
    /\ decodes' > decodes => received' = FrameBytes /\ sent = <<>>

\* C12: the stages of a cycle come in the order drain, query, header
\* search, payload read, decode, publish: the query is written with the
\* receive buffer empty and before any byte is read, the payload is read
\* after the header matched, the decode runs once 1540 bytes are stored,
\* and what is published is the grid the decode produced
C12_StageOrder == []C12_State /\ [][C12_Step]_vars

\* the second cycle published a grid that its decode had changed
C12_Witness ==
    /\ CycleOver /\ polls = 2 /\ variant = "wifi" /\ outcome = "success"
    /\ Len(sent) = 1 /\ sent[1].data = frame /\ frame # frame0

\* C13: no stale frame: the header matched in a cycle, and the bytes read
\* behind it, come after every byte of the answers to earlier queries
C13_NoStaleFrame ==
    headerFound => staleBytes <= Len(taken) - received - 4

C14_State ==
    /\ pc = "sync" => received = 0 /\ frame = frame0 /\ sent = <<>> /\ decodes = 0
    /\ (CycleOver /\ ~headerFound) =>
          /\ outcome = "timeout"
          /\ received = 0
          /\ frame = frame0
          /\ sent = <<>> /\ decodes = 0 /\ reported = -1

C14_Step == ~headerFound' => rawData' = rawData /\ frame' = frame /\ ambient' = ambient

\* C14: a header search that ends without a match leaves the data alone:
\* no payload byte is read, rawData[] and frame[] are not written in any
\* step of the cycle, nothing is decoded and nothing is broadcast
C14_TimeoutNoOp == []C14_State /\ [][C14_Step]_vars

\* a timeout after bytes were searched, in a cycle that started with a
\* decoded grid
C14_Witness ==
    /\ CycleOver /\ polls = 2 /\ outcome = "timeout" /\ ~headerFound
    /\ taken # <<>> /\ frame0 # Zeros /\ frame = frame0

\* C15: every cell of frame[] is the initial 0.0 or a value strictly
\* between -40 and 300 that the sensor encoded in a frame decoded earlier
C15_GridRange ==
    \A i \in 1..NumPixels :
        \/ frame[i] = 0
        \/ /\ frame[i] > -4000 /\ frame[i] < 30000
           /\ frame[i] \in RawSamples

\* a decode of out-of-range values left one cell at 0.0 and another at the
\* value of an earlier frame
C15_Witness ==
    /\ pc = "load" /\ polls = 2
    /\ \E i, j \in 1..NumPixels :
          /\ scene.pix[i] = -32768 /\ frame[i] = 0
          /\ scene.pix[j] = 32767 /\ frame[j] = 29999

\* C16: the accepted range is [-40, 300): a raw value of -4000 is written
\* into the grid and a raw value of 30000 leaves the cell as it was
C16_HalfOpenRange ==
    (pc = "load" /\ polls > 0) =>
        \A i \in 1..NumPixels :
            /\ scene.pix[i] = -4000 => frame[i] = -4000
            /\ scene.pix[i] = 30000 => frame[i] = frame0[i]

\* C16, amended: the accepted range is the open interval (-40, 300): raw
\* values of -4000 and of 30000 both leave the cell as it was, raw values
\* of -3999 and of 29999 are written
C16_OpenRange ==
    (pc = "load" /\ polls > 0) =>
        \A i \in 1..NumPixels :
            /\ scene.pix[i] = -4000 => frame[i] = frame0[i]
            /\ scene.pix[i] = 30000 => frame[i] = frame0[i]
            /\ scene.pix[i] = -3999 => frame[i] = -3999
            /\ scene.pix[i] = 29999 => frame[i] = 29999

\* a decode of -4000 and of 30000 kept two cells written by an earlier decode
C16_Witness ==
    /\ pc = "load" /\ polls = 2
    /\ \E i, j \in 1..NumPixels :
          /\ scene.pix[i] = -4000 /\ frame0[i] = 29999 /\ frame[i] = 29999
          /\ scene.pix[j] = 30000 /\ frame0[j] = -3999 /\ frame[j] = -3999

\* grids a decode may start from
PriorGrids == [1..NumPixels -> {0, -3999, 29999}]

\* C17: the grid and the ambient value a decode produces are a function of
\* the payload bytes alone: the decode of the same bytes from any other
\* prior grid gives the grid this decode gave
C17_DecodeOfBytesAlone ==
    (pc = "load" /\ polls > 0) =>
        \A g \in PriorGrids :
            /\ DecodeFrame(rawData, g) = frame
            /\ variant = "standalone" => DecodeAmbient(rawData) = ambient

\* C17, amended: the grid a decode produces is a function of the payload
\* bytes and of the grid before the decode: the decode of the same bytes
\* from another prior grid gives the same cell wherever the raw value is
\* in range or the two prior cells are equal, and so the same grid when
\* the prior grids are equal; the ambient value does not depend on the
\* prior grid
C17_DecodeOfBytesAndPrior ==
    (pc = "load" /\ polls > 0) =>
        \A g \in PriorGrids :
            /\ \A i \in 1..NumPixels :
                  (scene.pix[i] \in -3999..29999 \/ g[i] = frame0[i]) =>
                      DecodeFrame(rawData, g)[i] = frame[i]
            /\ g = frame0 => DecodeFrame(rawData, g) = frame
            /\ variant = "standalone" => DecodeAmbient(rawData) = ambient

\* a decode from a grid that is not the initial one, with one raw value in
\* range and one out of range
C17_Witness ==
    /\ pc = "load" /\ polls = 2 /\ frame0 \in PriorGrids
    /\ \E i, j \in 1..NumPixels :
          /\ scene.pix[i] = 29999 /\ frame0[i] = -3999 /\ frame[i] = 29999
          /\ scene.pix[j] = 32767 /\ frame0[j] = 29999 /\ frame[j] = 29999

\* values tried for the two checksum bytes
ChecksumSamples == {0, 90, 255}

\* rawData with its two last bytes replaced by c1 and c2
WithChecksum(c1, c2) ==
    [rawData EXCEPT ![FrameBytes - 1] = c1, ![FrameBytes] = c2]

\* the signed 16-bit value of the bytes lo and hi
Signed16(lo, hi) ==
    IF hi * 256 + lo < 32768 THEN hi * 256 + lo ELSE hi * 256 + lo - 65536

\* C18: the checksum bytes do not interfere: a cycle that read 1540 bytes
\* behind a header succeeds whatever the two last bytes are, every pixel in
\* range is written, and the same payload with any other checksum bytes
\* gives, from the same prior state, the same grid, the same ambient value
\* and the same broadcast
C18_ChecksumIgnored ==
    (CycleOver /\ headerFound /\ received = FrameBytes) =>
        /\ outcome = "success" /\ decodes = 1
        /\ \A i \in 1..NumPixels :
              Signed16(rawData[2 * i - 1], rawData[2 * i]) \in -3999..29999 =>
                  frame[i] = Signed16(rawData[2 * i - 1], rawData[2 * i])
        /\ \A c1, c2 \in ChecksumSamples :
              /\ DecodeFrame(WithChecksum(c1, c2), frame0) = frame
              /\ variant = "standalone" =>
                    DecodeAmbient(WithChecksum(c1, c2)) = ambient
              /\ variant = "wifi" =>
                    sent = Broadcast(<<>>, DecodeFrame(WithChecksum(c1, c2), frame0))

\* a frame whose checksum bytes are 11 22 (no sum of its bytes) was decoded
C18_Witness ==
    /\ CycleOver /\ outcome = "success"
    /\ rawData[FrameBytes - 1] = 17 /\ rawData[FrameBytes] = 34
    /\ frame # frame0

\* C19: for every pair of bytes lo, hi of a pixel the decoder uses the
\* two's-complement 16-bit integer of hi*256 + lo, and the temperature is
\* that integer in hundredths of a degree: after the decode of a frame over
\* the initial grid the cell holds that integer when it passes the filter
\* and 0.0 when it does not
C19_SignedLittleEndian ==
    (pc = "load" /\ decodes = 1) =>
        \A i \in 1..NumPixels :
            LET lo == rawData[2 * i - 1]
                hi == rawData[2 * i]
                r  == IF hi * 256 + lo < 32768 THEN hi * 256 + lo
                      ELSE hi * 256 + lo - 65536
            IN  frame[i] = IF r > -4000 /\ r < 30000 THEN r ELSE 0

\* the bytes 61 F0 were decoded as -39.99
C19_Witness ==
    /\ pc = "load" /\ decodes = 1
    /\ rawData[1] = 97 /\ rawData[2] = 240 /\ frame[1] = -3999

\* C20: every successful decode, in every variant, yields an ambient
\* temperature that is the signed 16-bit little-endian value of
\* rawData[1536] and rawData[1537] in hundredths of a degree, unfiltered
C20_AmbientDecoded ==
    (CycleOver /\ outcome = "success") =>
        ambient = Signed16(rawData[PixelBytes + 1], rawData[PixelBytes + 2])

----------------------------------------------------------------------------
\* C21: the payload given to broadcastBIN in a successful cycle is the whole
\* grid as it stands after the decode of that cycle: sizeof(frame) bytes,
\* cell i of the payload is frame[i] for every i, and each cell holds the
\* value decoded from the bytes read in this cycle, or, where that value was
\* rejected, the cell's value at the start of the cycle
C21_PublishedGrid ==
    (CycleOver /\ variant = "wifi" /\ outcome = "success") =>
        /\ Len(sent) = 1
        /\ sent[1].size = FloatSize * NumPixels
        /\ DOMAIN sent[1].data = 1..NumPixels
        /\ \A i \in 1..NumPixels :
              LET r == Signed16(taken[Len(taken) - FrameBytes + 2 * i - 1],
                                taken[Len(taken) - FrameBytes + 2 * i])
              IN  /\ sent[1].data[i] = frame[i]
                  /\ frame[i] = IF r > -4000 /\ r < 30000 THEN r ELSE frame0[i]

\* a second cycle publishes a grid with a cell written in this cycle and a
\* cell kept from the first one
C21_Witness ==
    /\ CycleOver /\ variant = "wifi" /\ outcome = "success" /\ polls = 2
    /\ Len(sent) = 1
    /\ sent[1].data[1] = frame0[1] /\ frame0[1] = 2501
    /\ sent[1].data[2] = -3999 /\ frame0[2] = 2502

----------------------------------------------------------------------------
\* C22: in the WiFi variants two consecutive broadcasts are at least 1000 ms
\* apart in millis() time
C22_BroadcastsApart == sentGap # -1 => sentGap >= PollInterval

----------------------------------------------------------------------------
\* C23: a grid of values of the range -3999..29999, encoded by the sensor as
\* little-endian signed 16-bit integers and decoded by the sketch, comes back
\* cell for cell, whatever the cells held before
C23_RoundTrip ==
    (pc = "load" /\ decodes = 1) =>
        \A i \in 1..NumPixels :
            /\ scene.pix[i] \in RangeRaws
            /\ frame[i] = scene.pix[i]

\* the lowest accepted value came back over a cell that held the highest
C23_Witness ==
    /\ pc = "load" /\ decodes = 1
    /\ scene.pix[1] = -3999 /\ frame[1] = -3999 /\ frame0[1] = 29999
    /\ scene.pix[2] = 29999 /\ frame[2] = 29999

----------------------------------------------------------------------------
\* C24: in the standalone sketch a cycle is triggered 5000 ms after the
\* previous one was triggered, whatever the previous cycle took
C24_StandalonePeriod ==
    (variant = "standalone" /\ polls >= 2) => pollGap = DelayMs

----------------------------------------------------------------------------
----------------------------------------------------------------------------
\* C26: the timer tests compare the time that really passed, also when
\* millis() overflows between the stored reading and the current one: the
\* unsigned differences millis() - lastFetch and millis() - startWait equal
\* the true durations, a header search that times out lasted exactly its
\* deadline, a poll is triggered only after more than 1000 ms and loop()
\* never returns without a poll once more than 1000 ms have passed
C26_State ==
    /\ variant = "wifi" => (now - lastFetch) % ClockMod = sincePoll
    /\ pc = "sync" =>
          /\ (now - startWait) % ClockMod = sinceStart
          /\ sinceStart <= Deadline
    /\ (CycleOver /\ outcome = "timeout") => sinceStart = Deadline

C26_Step ==
    (variant = "wifi" /\ pc = "loop" /\ now' # now) =>
        IF polls' = polls + 1
        THEN pollGap' > PollInterval
        ELSE sincePoll' <= PollInterval

C26_Wraparound == []C26_State /\ [][C26_Step]_vars

\* a poll triggered after the overflow, 1001 ms after the poll before it,
\* which was triggered less than 500 ms before the overflow and timed out
\* after it
C26_Witness ==
    /\ variant = "wifi" /\ pc = "drain" /\ polls = 2 /\ outcome = "timeout"
    /\ lastFetch = now
    /\ pollGap > now
    /\ pollGap - now < WifiDeadline

----------------------------------------------------------------------------
\* C27: decoding the same rawData a second time leaves the grid as the
\* first decode left it, for every payload and every grid held before
C27_DecodeIdempotent ==
    (pc = "load" /\ decodes = 1) =>
        /\ frame = DecodeFrame(rawData, frame0)
        /\ DecodeFrame(rawData, frame) = frame

\* a decode that kept one cell of the earlier grid and rewrote the other
C27_Witness ==
    /\ pc = "load" /\ decodes = 1 /\ polls = 2
    /\ scene.pix[1] = 30000 /\ frame0[1] = 29999 /\ frame[1] = 29999
    /\ scene.pix[2] = -3999 /\ frame0[2] = 29999 /\ frame[2] = -3999
    /\ DecodeFrame(rawData, frame) = frame

----------------------------------------------------------------------------
\* C28: one poll at a time: a cycle is entered only from loop(), when none
\* is running; the subscribers are serviced (connect, disconnect) only by
\* loop() between two cycles; frame[] and rawData[] are written only by the
\* payload stage of the running cycle
C28_State ==
    InCycle => polls > 0 /\ Len(tx) <= 1 /\ decodes = 0 /\ sent = <<>>

C28_Step ==
    /\ (pc' = "drain" /\ pc # "drain") => (pc = "loop" /\ polls' = polls + 1)
    /\ polls' # polls => (pc = "loop" /\ pc' = "drain")
    /\ clients' # clients => (variant = "wifi" /\ pc = "loop")
    /\ (frame' # frame \/ rawData' # rawData) => (pc = "read" /\ headerFound)

C28_OnePollAtATime == []C28_State /\ [][C28_Step]_vars

\* loop() ran between two cycles without polling and a subscriber connected
C28_Witness ==
    /\ variant = "wifi" /\ pc = "loop" /\ polls = 1 /\ outcome = "success"
    /\ ~loopPolled /\ loopElapsed = PollInterval /\ clients = 1

----------------------------------------------------------------------------
\* C29: parsePixels() of the early sketch gives every pixel the value the
\* decoders of the other sketches compute from the same two bytes: the
\* little-endian signed 16-bit integer, low byte first, over 100
C29_EarlyLittleEndian ==
    (variant = "early" /\ pc = "loop" /\ outcome = "success") =>
        \A i \in 1..NumPixels :
            /\ frame[i] = Temp(PixelRaw(rawData, i))
            /\ frame[i] = Signed16(rawData[2 * i - 1], rawData[2 * i])

\* C30: loop() of the early sketch goes on to read a payload only when the
\* last four bytes it consumed are 5A 5A 02 06, and no read() it made
\* found the buffer empty
C30_EarlyHeaderChecked ==
    /\ \A k \in 1..Len(taken) : taken[k] # -1
    /\ (variant = "early" /\ pc = "read" /\ received = 0) =>
          /\ Len(taken) >= 4
          /\ SubSeq(taken, Len(taken) - 3, Len(taken)) = Hdr

----------------------------------------------------------------------------
\* C31: in the standalone sketch every cell printed by decodeAndShow() gets
\* an index val that is an integer in 0..9
C31_RampIndexInBounds ==
    (variant = "standalone" /\ decodes = 1) =>
        /\ DOMAIN shown = 1..NumPixels
        /\ \A i \in 1..NumPixels :
              /\ shown[i] # <<>>
              /\ shown[i][1] >= 0
              /\ shown[i][1] <= RampLast
====
